---- MODULE Spec2Model ----
(***************************************************************************)
(* DataPreprocessor (src/src/data_preprocessing/data_preprocessor.py) as a *)
(* state machine: run() walks through load_demonstrations,                 *)
(* get_workspace_boundaries, get_goals, get_trajectories_length,           *)
(* generate_training_data (one step per trajectory and per window          *)
(* iteration) and get_limits_derivatives.                                  *)
(*                                                                         *)
(* Numbers are exact rationals <<n, d>> (d > 0, lowest terms).  The one    *)
(* floating-point effect that is modelled is the absorption of the 1e-15   *)
(* guard of line 194 by the accumulation of line 197 (see FloatAdd).       *)
(***************************************************************************)
EXTENDS Integers, Sequences, FiniteSets, TLC

\* ---------------------------------------------------------------- bounds
MaxVal == 1        \* raw sample values 0..MaxVal (run)
BndMaxLen == 2     \* samples per demonstration (bounds estimator)
MaxWindow == 2     \* imitation_window_size 1..MaxWindow (run)
GenMaxLen == 4     \* samples per demonstration (resampler)
MaxResample == 3   \* trajectories_resample_length 1..MaxResample (resampler)
MaxEval == 3       \* evaluation_samples_length 1..MaxEval (length analyzer)
MaxTrajLen == 7    \* trajectory lengths 0..MaxTrajLen (length analyzer)
MaxId == 2         \* primitive ids 0..MaxId (goals)
LimMaxWindow == 3  \* window steps of the tensors given to get_limits_derivatives
LimMaxVal == 1     \* tensor entries 0..LimMaxVal

\* ------------------------------------------------------------- rationals
Abs(x) == IF x < 0 THEN -x ELSE x

RECURSIVE GCD(_, _)
GCD(a, b) == IF b = 0 THEN a ELSE GCD(b, a % b)

Rat(n, d) ==
  LET s == IF d < 0 THEN -1 ELSE 1
      g == GCD(Abs(n), Abs(d))
  IN  <<(s * n) \div g, (s * d) \div g>>

FromInt(n) == <<n, 1>>
Zero == FromInt(0)
RAdd(a, b) == LET l == (a[2] \div GCD(a[2], b[2])) * b[2]
              IN  Rat(a[1] * (l \div a[2]) + b[1] * (l \div b[2]), l)
RNeg(a) == <<-a[1], a[2]>>
RSub(a, b) == RAdd(a, RNeg(b))
RMul(a, b) == LET g1 == GCD(Abs(a[1]), b[2])
                  g2 == GCD(Abs(b[1]), a[2])
              IN  Rat((a[1] \div g1) * (b[1] \div g2), (a[2] \div g2) * (b[2] \div g1))
RDiv(a, b) == RMul(a, Rat(b[2], b[1]))
RLe(a, b) == RSub(a, b)[1] <= 0
RLt(a, b) == RSub(a, b)[1] < 0
RMin(a, b) == IF RLe(a, b) THEN a ELSE b
RMax(a, b) == IF RLe(a, b) THEN b ELSE a
RAbs(a) == <<Abs(a[1]), a[2]>>
Two == FromInt(2)

RECURSIVE RSum(_)
RSum(s) == IF s = <<>> THEN Zero ELSE RAdd(Head(s), RSum(Tail(s)))

RECURSIVE RMinSeq(_)
RMinSeq(s) == IF Len(s) = 1 THEN s[1] ELSE RMin(s[1], RMinSeq(Tail(s)))

RECURSIVE RMaxSeq(_)
RMaxSeq(s) == IF Len(s) = 1 THEN s[1] ELSE RMax(s[1], RMaxSeq(Tail(s)))

\* integer square root of a perfect square; the inputs are chosen so that every
\* Euclidean distance the program takes is rational
ISqrt(n) == CHOOSE k \in 0..n : k * k = n
RSqrt(a) == <<ISqrt(a[1]), ISqrt(a[2])>>

\* a value of a sequence as a set of its elements
Range(s) == {s[i] : i \in 1..Len(s)}

\* sequences over S of length lo..hi
SeqsOf(S, lo, hi) == UNION {[1..n -> S] : n \in lo..hi}

\* ------------------------------------------------------------------ state
VARIABLES
  pc,                  \* the statement run() (or the function under study) is at
  params,              \* the configuration read by __init__
  dataset,             \* what load_demonstrations will return
  loaded_data,         \* run(): loaded_data
  x_min, x_max,        \* get_features_demos(): workspace bounds
  goals,               \* get_features_demos(): goals
  goals_training,      \* get_features_demos(): normalized goals
  lengths,             \* get_features_demos(): result of get_trajectories_length
  gen,                 \* generate_training_data(): its local variables
  demonstrations_train,\* run(): the training tensor
  limits,              \* run(): result of get_limits_derivatives
  preprocess_output,   \* run(): keys of the returned dictionary
  called               \* history: the functions entered so far, in order

vars == <<pc, params, dataset, loaded_data, x_min, x_max, goals, goals_training,
          lengths, gen, demonstrations_train, limits, preprocess_output, called>>

\* ---------------------------------------------------------- configuration
\* __init__: the fields copied from params
Params(resample, inc, dim, order, btype, bnds, evl, iws) ==
  [trajectories_resample_length |-> resample,
   state_increment |-> inc,
   dim_workspace |-> dim,
   dynamical_system_order |-> order,
   workspace_boundaries_type |-> btype,
   workspace_boundaries |-> bnds,
   eval_length |-> evl,
   imitation_window_size |-> iws]

delta_t == 1

\* a demonstration is kept as its sequence of samples (the transposed view of
\* line 178); a sample is a tuple with one raw value per dimension
NoData == [demos |-> <<>>, ids |-> <<>>]
NoLengths == [max_trajectory_length |-> 0, trajectories_length |-> <<>>,
              eval_indexes |-> <<>>]
NoLimits == [vel_min |-> <<>>, vel_max |-> <<>>, acc_min |-> <<>>, acc_max |-> <<>>]
NoGen == [j |-> 0, k |-> 0, demo_norm |-> <<>>, curve_phases |-> <<>>,
          delta_phases |-> <<>>, max_phase |-> Zero, u |-> <<>>,
          next_phase |-> <<>>, window |-> <<>>, resampled_positions |-> <<>>,
          error_acc |-> <<>>]

\* ------------------------------------------------- get_workspace_boundaries
\* per-dimension values of one demonstration
Column(demo, d) == [i \in 1..Len(demo) |-> FromInt(demo[i][d])]

\* lines 96-102: max of the per-demonstration maxes, min of the mins
PreMax(demos, d) == RMaxSeq([j \in 1..Len(demos) |-> RMaxSeq(Column(demos[j], d))])
PreMin(demos, d) == RMinSeq([j \in 1..Len(demos) |-> RMinSeq(Column(demos[j], d))])

\* lines 104-106: the tolerance; x_min is computed from the updated x_max
AddToleranceMax(mx, mn, inc) == RAdd(mx, RDiv(RMul(RSub(mx, mn), inc), Two))
AddToleranceMin(mx, mn, inc) == RSub(mn, RDiv(RMul(RSub(mx, mn), inc), Two))

ValidTypes == {"from data", "custom"}

\* variant: both margins taken from the range before widening
WorkspaceBoundariesSymmetric(demos, p) ==
  LET D == p.dim_workspace
  IN  [x_min |-> [d \in 1..D |-> AddToleranceMin(PreMax(demos, d), PreMin(demos, d),
                                                  p.state_increment)],
       x_max |-> [d \in 1..D |-> AddToleranceMax(PreMax(demos, d), PreMin(demos, d),
                                                  p.state_increment)]]

WorkspaceBoundariesFromData(demos, p) ==
  LET D == p.dim_workspace
      mx == [d \in 1..D |-> AddToleranceMax(PreMax(demos, d), PreMin(demos, d),
                                            p.state_increment)]
      mn == [d \in 1..D |-> AddToleranceMin(mx[d], PreMin(demos, d),
                                            p.state_increment)]
  IN  [x_min |-> mn, x_max |-> mx]

WorkspaceBoundariesCustom(p) ==
  [x_min |-> [d \in 1..Len(p.workspace_boundaries) |->
                FromInt(p.workspace_boundaries[d][1])],
   x_max |-> [d \in 1..Len(p.workspace_boundaries) |->
                FromInt(p.workspace_boundaries[d][2])]]

\* ---------------------------------------------------------------- get_goals
\* np.unique: the distinct ids in ascending order
RECURSIVE SortedSeq(_)
SortedSeq(S) ==
  IF S = {} THEN <<>>
  ELSE LET m == CHOOSE x \in S : \A y \in S : x <= y
       IN  <<m>> \o SortedSeq(S \ {m})

Unique(ids) == SortedSeq(Range(ids))

\* variant: every demonstration is taken, whatever its id
WhereAll(ids, i, from) == [n \in 1..Len(ids) |-> n]

\* np.where(primitive_ids == i): the indexes carrying id i, ascending
RECURSIVE Where(_, _, _)
Where(ids, i, from) ==
  IF from > Len(ids) THEN <<>>
  ELSE (IF ids[from] = i THEN <<from>> ELSE <<>>) \o Where(ids, i, from + 1)

\* lines 153-158: mean over the primitive's demonstrations of their last samples
GoalMean(demos, idx, D) ==
  [d \in 1..D |->
     RDiv(RSum([n \in 1..Len(idx) |-> FromInt(demos[idx[n]][Len(demos[idx[n]])][d])]),
          FromInt(Len(idx)))]

get_goals(demos, ids, D) ==
  LET u == Unique(ids)
  IN  [n \in 1..Len(u) |-> GoalMean(demos, Where(ids, u[n], 1), D)]

\* agent.utils.dynamical_system_operations.normalize_state: the linear rescaling
\* of [x_min, x_max] onto the reference range [-1, 1]
normalize_state(x, mn, mx) ==
  [d \in 1..Len(x) |->
     RSub(RMul(Two, RDiv(RSub(x[d], mn[d]), RSub(mx[d], mn[d]))), FromInt(1))]

\* ---------------------------------------------------- get_trajectories_length
\* variant: the stop value is not excluded
ArangeInclusive(start, stop, step) ==
  [i \in 1..(IF stop < start THEN 0 ELSE (stop - start) \div step + 1) |->
     start + (i - 1) * step]

\* np.arange(start, stop, step): ceil((stop - start) / step) values
Arange(start, stop, step) ==
  LET n == IF stop <= start THEN 0 ELSE ((stop - start) + step - 1) \div step
  IN  [i \in 1..n |-> start + (i - 1) * step]

\* lines 135-139
EvalIndexes(length_demo, eval_length) ==
  IF length_demo > eval_length
  THEN Arange(0, length_demo, length_demo \div eval_length)
  ELSE Arange(0, length_demo, 1)

\* lines 125-141: the loop over the demonstrations, from demonstration j on
RECURSIVE TrajLoop(_, _, _, _)
TrajLoop(demos, eval_length, j, acc) ==
  IF j > Len(demos) THEN acc
  ELSE LET length_demo == Len(demos[j])
       IN  TrajLoop(demos, eval_length, j + 1,
             [max_trajectory_length |->
                IF length_demo > acc.max_trajectory_length
                THEN length_demo ELSE acc.max_trajectory_length,
              trajectories_length |-> Append(acc.trajectories_length, length_demo),
              eval_indexes |-> Append(acc.eval_indexes,
                                      EvalIndexes(length_demo, eval_length))])

get_trajectories_length(demos, eval_length) == TrajLoop(demos, eval_length, 1, NoLengths)

\* -------------------------------------------------- generate_training_data
\* line 194: the margin added to a zero distance, 1e-15 in the source.  TLC's
\* integers are 32 bits wide, so the model keeps a positive value far below the
\* spacing of the samples; its size enters only through AbsorbAt
EpsDen == 64
EPS == <<1, EpsDen>>

\* IEEE-754 binary64: from 16 on, neighbouring values are 2^-48 (3.55e-15) apart,
\* so x + 1e-15 rounds back to x for every x >= 16 (and is above x for 0 <= x < 16)
AbsorbAt == 16

\* line 197, curve_phase += delta_phase in binary64: an increment of at most the
\* margin is lost once the phase has reached AbsorbAt; every other sum is exact
FloatAdd(curve_phase, delta_phase) ==
  IF RLe(delta_phase, EPS) /\ RLe(FromInt(AbsorbAt), curve_phase)
  THEN curve_phase
  ELSE RAdd(curve_phase, delta_phase)

\* np.linalg.norm of the difference of two samples
Norm(a, b) ==
  RSqrt(RSum([d \in 1..Len(a) |-> RMul(RSub(a[d], b[d]), RSub(a[d], b[d]))]))

\* line 192-194
ZeroGuard(delta_phase) ==
  IF delta_phase = Zero THEN RAdd(delta_phase, EPS) ELSE delta_phase

\* lines 188-201: the loop over the samples, from sample i on
RECURSIVE PhaseLoop(_, _, _, _)
PhaseLoop(demo_norm, i, curve_phases, delta_phases) ==
  IF i > Len(demo_norm) - 1
  THEN [curve_phases |-> curve_phases, delta_phases |-> delta_phases]
  ELSE LET delta_phase == ZeroGuard(Norm(demo_norm[i + 1], demo_norm[i]))
           curve_phase == FloatAdd(curve_phases[Len(curve_phases)], delta_phase)
       IN  PhaseLoop(demo_norm, i + 1, Append(curve_phases, curve_phase),
                     Append(delta_phases, delta_phase))

\* variant: the last point gets the margin as its delta instead of zero
PhaseArraysNoFinalZero(demo_norm) ==
  LET r == PhaseLoop(demo_norm, 1, <<Zero>>, <<>>)
  IN  [curve_phases |-> r.curve_phases,
       delta_phases |-> Append(r.delta_phases, EPS),
       max_phase |-> r.curve_phases[Len(r.curve_phases)]]

\* lines 185-206
PhaseArrays(demo_norm) ==
  LET r == PhaseLoop(demo_norm, 1, <<Zero>>, <<>>)
  IN  [curve_phases |-> r.curve_phases,
       delta_phases |-> Append(r.delta_phases, Zero),
       max_phase |-> r.curve_phases[Len(r.curve_phases)]]

StrictlyIncreasing(s) == \A i \in 1..(Len(s) - 1) : RLt(s[i], s[i + 1])

\* line 216, splprep(..., s=0, k=1, u=curve_phases): it needs more points than
\* the degree and strictly increasing parameter values, and raises otherwise
SplprepAccepts(curve_phases) ==
  Len(curve_phases) > 1 /\ StrictlyIncreasing(curve_phases)

\* the knot interval splev evaluates in: knots[i] <= x < knots[i+1], the last
\* interval closed on the right (and used beyond it)
Segment(x, knots) ==
  CHOOSE i \in 1..(Len(knots) - 1) :
    /\ RLe(knots[i], x) \/ i = 1
    /\ RLt(x, knots[i + 1]) \/ i = Len(knots) - 1

\* splev of one channel of the degree-1 interpolating spline
Splev(x, knots, values) ==
  LET i == Segment(x, knots)
      w == RDiv(RSub(x, knots[i]), RSub(knots[i + 1], knots[i]))
  IN  RAdd(values[i], RMul(w, RSub(values[i + 1], values[i])))

\* variant: the end point is left out, as with endpoint=False
LinspaceOpen(stop, num) ==
  [n \in 1..num |-> RDiv(RMul(FromInt(n - 1), stop), FromInt(num))]

\* line 219, np.linspace(0, stop, num)
Linspace(stop, num) ==
  [n \in 1..num |-> IF num = 1 THEN Zero
                    ELSE RDiv(RMul(FromInt(n - 1), stop), FromInt(num - 1))]

\* line 234, np.clip
Clip(x, a_min, a_max) == RMin(RMax(x, a_min), a_max)

\* np.mean
Mean(s) == RDiv(RSum(s), FromInt(Len(s)))

\* number of window iterations, line 223
WindowSteps(p) == p.imitation_window_size + (p.dynamical_system_order - 1)

\* line 247: axes (trajectory, window, dimension, point) to
\* (trajectory, point, dimension, window)
Transpose(rp, N, D, W) ==
  [j \in 1..Len(rp) |-> [n \in 1..N |-> [d \in 1..D |-> [k \in 1..W |->
     rp[j][k][d][n]]]]]

\* ---------------------------------------------------- get_limits_derivatives
\* lines 255 and 258: differences along the last axis
Diff(t) ==
  [j \in 1..Len(t) |-> [n \in 1..Len(t[j]) |-> [d \in 1..Len(t[j][n]) |->
     [k \in 1..(Len(t[j][n][d]) - 1) |->
        RDiv(RSub(t[j][n][d][k + 1], t[j][n][d][k]), FromInt(delta_t))]]]]

\* the entries of dimension d over axes 0, 1 and 3
Entries(t, d) ==
  {t[j][n][d][k] : j \in 1..Len(t), n \in 1..Len(t[1]), k \in 1..Len(t[1][1][1])}

RMinSet(S) == CHOOSE x \in S : \A y \in S : RLe(x, y)
RMaxSet(S) == CHOOSE x \in S : \A y \in S : RLe(y, x)

\* np.min / np.max raise on an empty reduction: it takes three window steps to
\* have an acceleration
LimitsDefined(demos) == Len(demos) > 0 /\ Len(demos[1]) > 0 /\ Len(demos[1][1][1]) > 2

\* variant: the widening is applied whatever the order
WidenVelMaxAlways(mx, mn, p) == RAdd(mx, RDiv(RMul(RSub(mx, mn), p.state_increment), Two))

\* lines 268-271: the velocity limits of a second-order system
WidenVelMax(mx, mn, p) ==
  IF p.dynamical_system_order = 2
  THEN RAdd(mx, RDiv(RMul(RSub(mx, mn), p.state_increment), Two))
  ELSE mx
WidenVelMin(mx, mn, p) ==
  IF p.dynamical_system_order = 2
  THEN RSub(mn, RDiv(RMul(RSub(mx, mn), p.state_increment), Two))
  ELSE mn

get_limits_derivatives(demos, p) ==
  LET D == Len(demos[1][1])
      velocity == Diff(demos)
      acceleration == Diff(velocity)
      min_velocity == [d \in 1..D |-> RMinSet(Entries(velocity, d))]
      max_velocity == [d \in 1..D |-> RMaxSet(Entries(velocity, d))]
      max_widened == [d \in 1..D |-> WidenVelMax(max_velocity[d], min_velocity[d], p)]
      min_widened == [d \in 1..D |-> WidenVelMin(max_widened[d], min_velocity[d], p)]
  IN  [vel_min |-> min_widened,
       vel_max |-> max_widened,
       acc_min |-> [d \in 1..D |-> RMinSet(Entries(acceleration, d))],
       acc_max |-> [d \in 1..D |-> RMaxSet(Entries(acceleration, d))]]

\* ------------------------------------------------------------------- run()
Demos == loaded_data.demos
NTrajectories == Len(loaded_data.demos)

\* line 32
LoadDemonstrations ==
  /\ pc = "run"
  /\ loaded_data' = dataset
  /\ called' = Append(called, "load_demonstrations")
  /\ pc' = "get_workspace_boundaries"
  /\ UNCHANGED <<params, dataset, x_min, x_max, goals, goals_training, lengths, gen,
                 demonstrations_train, limits, preprocess_output>>

\* variant: an unknown type is taken for 'custom' instead of raising
GetWorkspaceBoundariesLenient ==
  /\ pc = "get_workspace_boundaries"
  /\ called' = called \o <<"get_features_demos", "get_workspace_boundaries">>
  /\ LET b == IF params.workspace_boundaries_type = "from data"
              THEN WorkspaceBoundariesFromData(Demos, params)
              ELSE WorkspaceBoundariesCustom(params)
     IN  x_min' = b.x_min /\ x_max' = b.x_max /\ pc' = "get_goals"
  /\ UNCHANGED <<params, dataset, loaded_data, goals, goals_training, lengths, gen,
                 demonstrations_train, limits, preprocess_output>>

\* lines 35, 55-59 and 86-115
GetWorkspaceBoundaries ==
  /\ pc = "get_workspace_boundaries"
  /\ called' = called \o <<"get_features_demos", "get_workspace_boundaries">>
  /\ IF params.workspace_boundaries_type = "from data"
     THEN LET b == WorkspaceBoundariesFromData(Demos, params)
          IN  x_min' = b.x_min /\ x_max' = b.x_max /\ pc' = "get_goals"
     ELSE IF params.workspace_boundaries_type = "custom"
     THEN LET b == WorkspaceBoundariesCustom(params)
          IN  x_min' = b.x_min /\ x_max' = b.x_max /\ pc' = "get_goals"
     ELSE pc' = "raised" /\ UNCHANGED <<x_min, x_max>>
  /\ UNCHANGED <<params, dataset, loaded_data, goals, goals_training, lengths, gen,
                 demonstrations_train, limits, preprocess_output>>

\* lines 61-65 and 143-161
GetGoals ==
  /\ pc = "get_goals"
  /\ called' = Append(called, "get_goals")
  /\ LET g == get_goals(Demos, loaded_data.ids, Len(Demos[1][1]))
     IN  /\ goals' = g
         /\ goals_training' = [n \in 1..Len(g) |-> normalize_state(g[n], x_min, x_max)]
  /\ pc' = "get_trajectories_length"
  /\ UNCHANGED <<params, dataset, loaded_data, x_min, x_max, lengths, gen,
                 demonstrations_train, limits, preprocess_output>>

\* lines 67-84 and 117-141
GetTrajectoriesLength ==
  /\ pc = "get_trajectories_length"
  /\ called' = Append(called, "get_trajectories_length")
  /\ lengths' = get_trajectories_length(Demos, params.eval_length)
  /\ pc' = "generate_training_data"
  /\ UNCHANGED <<params, dataset, loaded_data, x_min, x_max, goals, goals_training,
                 gen, demonstrations_train, limits, preprocess_output>>

\* lines 38 and 168-170
GenEnter ==
  /\ pc = "generate_training_data"
  /\ called' = Append(called, "generate_training_data")
  /\ gen' = [NoGen EXCEPT !.j = 1]
  /\ pc' = "gen_demo"
  /\ UNCHANGED <<params, dataset, loaded_data, x_min, x_max, goals, goals_training,
                 lengths, demonstrations_train, limits, preprocess_output>>

\* line 182
DemoNorm(demo) ==
  [i \in 1..Len(demo) |->
     normalize_state([d \in 1..Len(demo[i]) |-> FromInt(demo[i][d])], x_min, x_max)]

\* lines 173-222: one demonstration up to the start of its window loop
GenDemo ==
  /\ pc = "gen_demo"
  /\ gen.j <= NTrajectories
  /\ LET demo_norm == DemoNorm(Demos[gen.j])
         ph == PhaseArrays(demo_norm)
         fitted == SplprepAccepts(ph.curve_phases)
     IN  /\ gen' = [gen EXCEPT !.demo_norm = demo_norm,
                               !.curve_phases = ph.curve_phases,
                               !.delta_phases = ph.delta_phases,
                               !.max_phase = ph.max_phase,
                               !.u = IF fitted
                                     THEN Linspace(ph.max_phase,
                                                   params.trajectories_resample_length)
                                     ELSE <<>>,
                               !.next_phase = <<>>,
                               !.window = <<>>,
                               !.k = 0]
         /\ pc' = IF fitted THEN "gen_window" ELSE "raised"
  /\ UNCHANGED <<params, dataset, loaded_data, x_min, x_max, goals, goals_training,
                 lengths, demonstrations_train, limits, preprocess_output, called>>

\* line 225: one channel of the spline at every phase sample
SplineChannel(u, g, values) ==
  [n \in 1..Len(u) |-> Splev(u[n], g.curve_phases, values)]

\* lines 232-233
NextPhase(u, g) ==
  LET delta_phase == SplineChannel(u, g, g.delta_phases)
  IN  [n \in 1..Len(u) |-> RAdd(u[n], delta_phase[n])]

\* line 234
ClipPhase(next_phase, g) ==
  [n \in 1..Len(next_phase) |-> Clip(next_phase[n], Zero, g.max_phase)]

\* lines 223-238: one iteration of the window loop
GenWindow ==
  /\ pc = "gen_window"
  /\ gen.k < WindowSteps(params)
  /\ LET position_window ==
           [d \in 1..params.dim_workspace |->
              SplineChannel(gen.u, gen, [i \in 1..Len(gen.demo_norm) |-> gen.demo_norm[i][d]])]
         next_phase == NextPhase(gen.u, gen)
         u == ClipPhase(next_phase, gen)
         predicted_phase == SplineChannel(u, gen, gen.curve_phases)
         err == Mean([n \in 1..Len(u) |-> RAbs(RSub(predicted_phase[n], next_phase[n]))])
     IN  gen' = [gen EXCEPT !.window = Append(@, position_window),
                            !.next_phase = next_phase,
                            !.u = u,
                            !.error_acc = Append(@, err),
                            !.k = @ + 1]
  /\ UNCHANGED <<pc, params, dataset, loaded_data, x_min, x_max, goals, goals_training,
                 lengths, demonstrations_train, limits, preprocess_output, called>>

\* line 240
GenAppend ==
  /\ pc = "gen_window"
  /\ gen.k = WindowSteps(params)
  /\ gen' = [gen EXCEPT !.resampled_positions = Append(@, gen.window), !.j = @ + 1]
  /\ pc' = "gen_demo"
  /\ UNCHANGED <<params, dataset, loaded_data, x_min, x_max, goals, goals_training,
                 lengths, demonstrations_train, limits, preprocess_output, called>>

\* lines 242-248
GenReturn ==
  /\ pc = "gen_demo"
  /\ gen.j > NTrajectories
  /\ demonstrations_train' =
       Transpose(gen.resampled_positions, params.trajectories_resample_length,
                 params.dim_workspace, WindowSteps(params))
  /\ pc' = "get_limits_derivatives"
  /\ UNCHANGED <<params, dataset, loaded_data, x_min, x_max, goals, goals_training,
                 lengths, gen, limits, preprocess_output, called>>

\* lines 41 and 250-278
GetLimitsDerivatives ==
  /\ pc = "get_limits_derivatives"
  /\ called' = Append(called, "get_limits_derivatives")
  /\ IF LimitsDefined(demonstrations_train)
     THEN limits' = get_limits_derivatives(demonstrations_train, params) /\ pc' = "return"
     ELSE pc' = "raised" /\ UNCHANGED limits
  /\ UNCHANGED <<params, dataset, loaded_data, x_min, x_max, goals, goals_training,
                 lengths, gen, demonstrations_train, preprocess_output>>

LoadedKeys == {"demonstrations raw", "demonstrations primitive id"}
FeatureKeys == {"x min", "x max", "goals", "goals training", "max demonstration length",
                "demonstrations length", "eval indexes", "n demonstrations"}
LimitKeys == {"vel min train", "vel max train", "acc min train", "acc max train"}

\* lines 43-49
Return ==
  /\ pc = "return"
  /\ preprocess_output' = {"demonstrations train"} \cup LoadedKeys \cup FeatureKeys
                            \cup LimitKeys
  /\ pc' = "done"
  /\ UNCHANGED <<params, dataset, loaded_data, x_min, x_max, goals, goals_training,
                 lengths, gen, demonstrations_train, limits, called>>

\* --------------------------------------------------------- run(): the inputs
OneFifth == Rat(1, 5)

\* one-dimensional demonstrations, one or two of them
RunTrajectories == SeqsOf({<<v>> : v \in 0..MaxVal}, 1, 2)
RunIds == {<<0>>, <<0, 0>>, <<1, 0>>}
RunDatasets ==
  {x \in [demos : SeqsOf(RunTrajectories, 1, 2), ids : RunIds] :
     Len(x.ids) = Len(x.demos)}

RunParams ==
  {Params(2, OneFifth, 1, order, btype, <<<<0, 2>>>>, 1, iws) :
     order \in {1, 2}, btype \in {"from data", "custom", "bogus"},
     iws \in 1..MaxWindow}

\* the spec's data-model invariant max > min, without which normalize_state divides
\* by zero
Spread(data, p) ==
  p.workspace_boundaries_type = "from data" =>
    \A d \in 1..p.dim_workspace : RLt(PreMin(data.demos, d), PreMax(data.demos, d))

\* the object after __init__, nothing computed yet
Fresh ==
  /\ x_min = <<>> /\ x_max = <<>> /\ goals = <<>> /\ goals_training = <<>>
  /\ lengths = NoLengths
  /\ gen = NoGen
  /\ demonstrations_train = <<>>
  /\ limits = NoLimits
  /\ preprocess_output = {}

Init ==
  /\ pc = "run"
  /\ params \in RunParams
  /\ dataset \in RunDatasets
  /\ Spread(dataset, params)
  /\ loaded_data = NoData
  /\ Fresh
  /\ called = <<>>

NextGen == GenEnter \/ GenDemo \/ GenWindow \/ GenAppend \/ GenReturn

Next ==
  \/ LoadDemonstrations
  \/ GetWorkspaceBoundaries
  \/ GetGoals
  \/ GetTrajectoriesLength
  \/ NextGen
  \/ GetLimitsDerivatives
  \/ Return

Spec == Init /\ [][Next]_vars

\* ------------------------------------------- get_workspace_boundaries alone
OneHalf == Rat(1, 2)

BndTrajectories == SeqsOf({<<v>> : v \in {0, 2, 8, 10}}, 1, BndMaxLen)
BndDatasets == [demos : SeqsOf(BndTrajectories, 1, 2), ids : {<<0>>}]
BndParams ==
  {Params(2, inc, 1, 1, btype, bnds, 1, 2) :
     inc \in {OneFifth, OneHalf}, btype \in {"from data", "custom"},
     bnds \in {<<<<0, 2>>>>, <<<<-1, 10>>>>}}

InitBounds ==
  /\ pc = "get_workspace_boundaries"
  /\ params \in BndParams
  /\ dataset \in BndDatasets
  /\ loaded_data = dataset
  /\ Fresh
  /\ called = <<"load_demonstrations">>

SpecBounds == InitBounds /\ [][GetWorkspaceBoundaries]_vars

\* -------------------------------------------- get_trajectories_length alone
\* only the lengths matter: the demonstrations are runs of one sample
ConstantDemo(n) == [i \in 1..n |-> <<0>>]
LenLengths == (0..MaxTrajLen) \cup {50}
LenDatasets ==
  {[demos |-> [j \in 1..Len(l) |-> ConstantDemo(l[j])], ids |-> [j \in 1..Len(l) |-> 0]] :
     l \in SeqsOf(LenLengths, 1, 2)}
LenParams ==
  {Params(2, OneFifth, 1, 1, "custom", <<<<0, 2>>>>, evl, 2) :
     evl \in (1..MaxEval) \cup {10}}

InitLen ==
  /\ pc = "get_trajectories_length"
  /\ params \in LenParams
  /\ dataset \in LenDatasets
  /\ loaded_data = dataset
  /\ Fresh
  /\ called = <<>>

SpecLen == InitLen /\ [][GetTrajectoriesLength]_vars

\* ------------------------------------------------------------ get_goals alone
GoalSamples == {<<1, 1>>, <<3, 3>>, <<2, 5>>}
GoalTrajectories == SeqsOf(GoalSamples, 1, 2)
GoalDatasets ==
  {x \in [demos : SeqsOf(GoalTrajectories, 1, 3), ids : SeqsOf(0..MaxId, 1, 3)] :
     Len(x.ids) = Len(x.demos)}
GoalParams == {Params(2, OneFifth, 2, 1, "custom", <<<<0, 2>>, <<0, 4>>>>, 1, 2)}

InitGoals ==
  /\ pc = "get_goals"
  /\ params \in GoalParams
  /\ dataset \in GoalDatasets
  /\ loaded_data = dataset
  /\ x_min = WorkspaceBoundariesCustom(params).x_min
  /\ x_max = WorkspaceBoundariesCustom(params).x_max
  /\ goals = <<>> /\ goals_training = <<>>
  /\ lengths = NoLengths
  /\ gen = NoGen
  /\ demonstrations_train = <<>>
  /\ limits = NoLimits
  /\ preprocess_output = {}
  /\ called = <<"load_demonstrations", "get_features_demos", "get_workspace_boundaries">>

SpecGoals == InitGoals /\ [][GetGoals]_vars

\* ------------------------------------------------ generate_training_data alone
\* two-dimensional samples whose normalized images are (0, 0), (6, 0) and (0, 8):
\* every distance between two of them (0, 6, 8 or 10) is rational
GenSamples == {<<1, 1>>, <<7, 1>>, <<1, 9>>}
GenDatasets == [demos : SeqsOf(SeqsOf(GenSamples, 1, GenMaxLen), 1, 1), ids : {<<0>>}]
\* one to three window steps
GenWindows == {<<1, 1>>, <<1, 2>>, <<2, 2>>}
GenParams ==
  {Params(resample, OneFifth, 2, w[1], "custom", <<<<0, 2>>, <<0, 2>>>>, 1, w[2]) :
     resample \in 1..MaxResample, w \in GenWindows}

InitGen ==
  /\ pc = "generate_training_data"
  /\ params \in GenParams
  /\ dataset \in GenDatasets
  /\ loaded_data = dataset
  /\ x_min = WorkspaceBoundariesCustom(params).x_min
  /\ x_max = WorkspaceBoundariesCustom(params).x_max
  /\ goals = get_goals(dataset.demos, dataset.ids, 2)
  /\ goals_training = [n \in 1..Len(goals) |-> normalize_state(goals[n], x_min, x_max)]
  /\ lengths = get_trajectories_length(dataset.demos, params.eval_length)
  /\ gen = NoGen
  /\ demonstrations_train = <<>>
  /\ limits = NoLimits
  /\ preprocess_output = {}
  /\ called = <<"load_demonstrations", "get_features_demos", "get_workspace_boundaries",
                "get_goals", "get_trajectories_length">>

SpecGen == InitGen /\ [][NextGen]_vars

\* ------------------------------------------------ get_limits_derivatives alone
\* tensors [trajectory][point][dimension][window step] that vary along one of the
\* first three axes at a time
LimShapes == {<<1, 1, 1>>, <<2, 1, 1>>, <<1, 2, 1>>, <<1, 1, 2>>}
LimTensors ==
  UNION {[1..sh[1] -> [1..sh[2] -> [1..sh[3] ->
            [1..W -> {FromInt(v) : v \in 0..LimMaxVal}]]]] :
         sh \in LimShapes, W \in 1..LimMaxWindow}
LimParams ==
  {Params(2, inc, 1, order, "custom", <<<<0, 2>>>>, 1, 2) :
     inc \in {OneFifth}, order \in {1, 2}}

InitLimits ==
  /\ pc = "get_limits_derivatives"
  /\ params \in LimParams
  /\ dataset = NoData
  /\ loaded_data = NoData
  /\ x_min = <<>> /\ x_max = <<>> /\ goals = <<>> /\ goals_training = <<>>
  /\ lengths = NoLengths
  /\ gen = NoGen
  /\ demonstrations_train \in LimTensors
  /\ limits = NoLimits
  /\ preprocess_output = {}
  /\ called = <<>>

SpecLimits == InitLimits /\ [][GetLimitsDerivatives]_vars

\* ================================================================== claims
Margin(mx, mn, inc) == RDiv(RMul(RSub(mx, mn), inc), Two)

InFromDataMode == params.workspace_boundaries_type = "from data"
BoundsComputed == x_min # <<>>

\* C1: in mode 'from data' both bounds move outward by the same margin
\* (pre_max - pre_min) * state_increment / 2 around the range
\* [min of mins, max of maxes]: x_max = pre_max + margin, x_min = pre_min - margin
\* (ranges [0,10] and [2,8] with increment 0.2 give -1 and 11).
C1_SymmetricMargin ==
  (BoundsComputed /\ InFromDataMode) =>
    \A d \in 1..params.dim_workspace :
      LET pre_max == PreMax(Demos, d)
          pre_min == PreMin(Demos, d)
          margin == Margin(pre_max, pre_min, params.state_increment)
      IN  /\ x_max[d] = RAdd(pre_max, margin)
          /\ x_min[d] = RSub(pre_min, margin)

\* first differences of the training tensor in dimension d, taken entry by entry
RawVelocities(t, d) ==
  {RSub(t[j][n][d][k + 1], t[j][n][d][k]) :
     j \in 1..Len(t), n \in 1..Len(t[1]), k \in 1..(Len(t[1][1][1]) - 1)}
RawAccelerations(t, d) ==
  {RAdd(RSub(t[j][n][d][k + 2], RMul(Two, t[j][n][d][k + 1])), t[j][n][d][k]) :
     j \in 1..Len(t), n \in 1..Len(t[1]), k \in 1..(Len(t[1][1][1]) - 2)}
IsMinOf(x, S) == x \in S /\ \A y \in S : RLe(x, y)
IsMaxOf(x, S) == x \in S /\ \A y \in S : RLe(y, x)

LimitsComputed == pc \in {"return", "done"}

\* C2: the widening is max first, and the lower bound's margin is taken from the
\* widened upper bound: new_max = max + (max - min) * inc / 2, then
\* new_min = min - (new_max - min) * inc / 2; get_workspace_boundaries ('from
\* data') does so for x_min/x_max and get_limits_derivatives for the velocity
\* limits of a second-order system.
C2_MaxFirstWidening ==
  /\ (BoundsComputed /\ InFromDataMode) =>
       \A d \in 1..params.dim_workspace :
         LET pre_max == PreMax(Demos, d)
             pre_min == PreMin(Demos, d)
         IN  /\ x_max[d] = RAdd(pre_max, Margin(pre_max, pre_min, params.state_increment))
             /\ x_min[d] = RSub(pre_min, Margin(x_max[d], pre_min, params.state_increment))
  /\ (LimitsComputed /\ params.dynamical_system_order = 2) =>
       \A d \in 1..params.dim_workspace :
         \E mx \in RawVelocities(demonstrations_train, d) :
           \E mn \in RawVelocities(demonstrations_train, d) :
             /\ IsMaxOf(mx, RawVelocities(demonstrations_train, d))
             /\ IsMinOf(mn, RawVelocities(demonstrations_train, d))
             /\ limits.vel_max[d] = RAdd(mx, Margin(mx, mn, params.state_increment))
             /\ limits.vel_min[d] =
                  RSub(mn, Margin(limits.vel_max[d], mn, params.state_increment))

\* a second-order run on data-derived bounds that returned, with a velocity
\* range that is not a single value
C2_Witness ==
  /\ pc = "done"
  /\ InFromDataMode
  /\ params.dynamical_system_order = 2
  /\ RLt(x_min[1], PreMin(Demos, 1))
  /\ RLt(limits.vel_min[1], limits.vel_max[1])

AfterBoundaries == {"get_goals", "get_trajectories_length", "generate_training_data",
                    "get_limits_derivatives"}

\* C3: with a workspace_boundaries_type other than 'from data' and 'custom',
\* run() fails in get_workspace_boundaries: get_goals, get_trajectories_length,
\* generate_training_data and get_limits_derivatives are never entered and no
\* output dictionary, not even a partial one, is returned.
C3_InvalidTypeFailsFirst ==
  (params.workspace_boundaries_type \notin ValidTypes) =>
    /\ \A i \in 1..Len(called) : called[i] \notin AfterBoundaries
    /\ preprocess_output = {}
    /\ pc \in {"run", "get_workspace_boundaries", "raised"}
    /\ pc = "raised" => called[Len(called)] = "get_workspace_boundaries"
    /\ goals = <<>> /\ lengths = NoLengths /\ gen = NoGen
    /\ demonstrations_train = <<>> /\ limits = NoLimits

C3_Witness ==
  /\ pc = "raised"
  /\ params.workspace_boundaries_type = "bogus"
  /\ called = <<"load_demonstrations", "get_features_demos", "get_workspace_boundaries">>

LengthsComputed == pc = "generate_training_data"

\* C4: for a trajectory of length L and evaluation-sample count E the eval
\* indexes are the multiples of s = floor(L / E) below L, in order, when L > E,
\* and 0..L-1 when L <= E (L=50, E=10: 0,5,...,45; L=5, E=10: 0..4); the lengths
\* are reported in demonstration order and the maximum is the largest of them.
C4_EvalIndexes ==
  LengthsComputed =>
    LET E == params.eval_length
        n == Len(Demos)
    IN  /\ Len(lengths.trajectories_length) = n
        /\ Len(lengths.eval_indexes) = n
        /\ \A j \in 1..n :
             LET L == Len(Demos[j])
                 idx == lengths.eval_indexes[j]
                 s == L \div E
             IN  /\ lengths.trajectories_length[j] = L
                 /\ L > E =>
                      /\ Range(idx) = {m \in 0..(L - 1) : m % s = 0}
                      /\ \A i \in 1..Len(idx) : idx[i] = (i - 1) * s
                 /\ L <= E => idx = [i \in 1..L |-> i - 1]
                 /\ (L = 50 /\ E = 10) => idx = <<0, 5, 10, 15, 20, 25, 30, 35, 40, 45>>
                 /\ (L = 5 /\ E = 10) => idx = <<0, 1, 2, 3, 4>>
        /\ \A j \in 1..n : lengths.trajectories_length[j] <= lengths.max_trajectory_length
        /\ \E j \in 1..n : lengths.trajectories_length[j] = lengths.max_trajectory_length

\* a trajectory of 50 samples thinned to ten indexes beside one kept whole
C4_Witness ==
  /\ LengthsComputed
  /\ params.eval_length = 10
  /\ lengths.trajectories_length = <<50, 5>>
  /\ Len(lengths.eval_indexes[1]) = 10
  /\ Len(lengths.eval_indexes[2]) = 5

RECURSIVE SumOver(_, _, _)
SumOver(S, demos, d) ==
  IF S = {} THEN 0
  ELSE LET j == CHOOSE x \in S : TRUE
       IN  demos[j][Len(demos[j])][d] + SumOver(S \ {j}, demos, d)

GoalsComputed == pc = "get_trajectories_length"

\* C5: get_goals returns one goal per distinct primitive id, in ascending order
\* of the ids, each the per-dimension mean of the final samples of exactly the
\* demonstrations carrying that id (final states [1,1] and [3,3] under one id
\* give [2,2]).
C5_GoalsAreMeans ==
  GoalsComputed =>
    LET ids == loaded_data.ids
        U == Range(ids)
    IN  /\ Len(goals) = Cardinality(U)
        /\ \A i \in U :
             LET rank == Cardinality({y \in U : y < i}) + 1
                 S == {j \in 1..Len(ids) : ids[j] = i}
             IN  \A d \in 1..2 :
                   RMul(goals[rank][d], FromInt(Cardinality(S))) =
                     FromInt(SumOver(S, Demos, d))
        /\ (Cardinality(U) = 1 /\ Len(Demos) = 2
              /\ Demos[1][Len(Demos[1])] = <<1, 1>>
              /\ Demos[2][Len(Demos[2])] = <<3, 3>>) =>
             goals = <<<<FromInt(2), FromInt(2)>>>>

\* two primitives, the smaller id second, the larger one averaging two
\* demonstrations with different final samples
C5_Witness ==
  /\ GoalsComputed
  /\ loaded_data.ids = <<2, 0, 2>>
  /\ Len(goals) = 2
  /\ Demos[1][Len(Demos[1])] = <<1, 1>>
  /\ Demos[3][Len(Demos[3])] = <<3, 3>>
  /\ goals[2] = <<FromInt(2), FromInt(2)>>

ConstantAlongWindow(t) ==
  \A j \in 1..Len(t) : \A n \in 1..Len(t[j]) : \A d \in 1..Len(t[j][n]) :
    \A k \in 1..Len(t[j][n][d]) : t[j][n][d][k] = t[j][n][d][1]

\* C8: get_limits_derivatives returns per dimension the min and max, over all
\* trajectories, points and window positions, of the first differences along the
\* window axis and of the second differences; a first-order system gets the
\* velocity limits unwidened, so a tensor constant along the window axis gives
\* four zero limits; the acceleration limits are never widened.
C8_DerivativeLimits ==
  LimitsComputed =>
    \A d \in 1..Len(demonstrations_train[1][1]) :
      /\ IsMinOf(limits.acc_min[d], RawAccelerations(demonstrations_train, d))
      /\ IsMaxOf(limits.acc_max[d], RawAccelerations(demonstrations_train, d))
      /\ params.dynamical_system_order = 1 =>
           /\ IsMinOf(limits.vel_min[d], RawVelocities(demonstrations_train, d))
           /\ IsMaxOf(limits.vel_max[d], RawVelocities(demonstrations_train, d))
           /\ ConstantAlongWindow(demonstrations_train) =>
                /\ limits.vel_min[d] = Zero /\ limits.vel_max[d] = Zero
                /\ limits.acc_min[d] = Zero /\ limits.acc_max[d] = Zero

\* a first-order system whose two points differ but do not move along the window
C8_Witness ==
  /\ LimitsComputed
  /\ params.dynamical_system_order = 1
  /\ Len(demonstrations_train[1]) = 2
  /\ demonstrations_train[1][1][1][1] # demonstrations_train[1][2][1][1]
  /\ ConstantAlongWindow(demonstrations_train)
  /\ limits.vel_max = <<Zero>> /\ limits.acc_min = <<Zero>>

InWindowLoop == pc = "gen_window"
NSamples == params.trajectories_resample_length
WithinPhaseRange(x) == RLe(Zero, x) /\ RLe(x, gen.max_phase)
EquallySpaced(u) ==
  \A n \in 1..(Len(u) - 1) : RSub(u[n + 1], u[n]) = RSub(u[2], u[1])

\* C9 as amended: in the window loop every phase sample the spline is evaluated at
\* lies in [0, max_phase]; the initial samples are equally spaced and start at 0,
\* and the last one is max_phase when there are at least two samples (a single
\* sample is 0); no sample decreases from one window step to the next.
C9_Samples ==
  InWindowLoop =>
    /\ Len(gen.u) = NSamples
    /\ \A n \in 1..NSamples : WithinPhaseRange(gen.u[n])
    /\ gen.k = 0 =>
         /\ gen.u[1] = Zero
         /\ NSamples >= 2 => gen.u[NSamples] = gen.max_phase
         /\ EquallySpaced(gen.u)
C9_NeverDecreases ==
  (InWindowLoop /\ pc' = "gen_window") =>
    \A n \in 1..NSamples : RLe(gen.u[n], gen'.u[n])
C9_PhaseWithinRange == [](C9_Samples) /\ [][C9_NeverDecreases]_vars

\* C9 as stated: ... the initial samples run from 0 to max_phase (first = 0,
\* last = max_phase) for every trajectories_resample_length.
C9_LastIsMaxPhase ==
  InWindowLoop =>
    /\ \A n \in 1..NSamples : WithinPhaseRange(gen.u[n])
    /\ gen.k = 0 =>
         /\ gen.u[1] = Zero
         /\ gen.u[NSamples] = gen.max_phase
         /\ EquallySpaced(gen.u)

\* three samples after two advances: the first on its way, the last held at the end
C9_Witness ==
  /\ InWindowLoop
  /\ gen.k = 2
  /\ NSamples = 3
  /\ RLt(Zero, gen.u[1]) /\ RLt(gen.u[1], gen.u[2]) /\ RLt(gen.u[2], gen.u[3])
  /\ gen.u[3] = gen.max_phase

PhasesComputed == gen.curve_phases # <<>>
RawLength == Len(gen.demo_norm)
Min(a, b) == IF a <= b THEN a ELSE b

\* C7: for a trajectory of length L the phase sequence has L entries, starts at 0
\* and is strictly increasing, also across coinciding samples; the delta sequence
\* has L entries, delta[i] = phase[i+1] - phase[i] before the last and 0 at the
\* last; max_phase is the last phase.
C7_PhaseSequences ==
  PhasesComputed =>
    /\ Len(gen.curve_phases) = RawLength
    /\ gen.curve_phases[1] = Zero
    /\ StrictlyIncreasing(gen.curve_phases)
    /\ Len(gen.delta_phases) = RawLength
    /\ \A i \in 1..(RawLength - 1) :
         gen.delta_phases[i] = RSub(gen.curve_phases[i + 1], gen.curve_phases[i])
    /\ gen.delta_phases[RawLength] = Zero
    /\ gen.max_phase = gen.curve_phases[RawLength]

\* C6: for every set of demonstrations generate_training_data returns a tensor
\* [trajectory][point][dimension][window step] with trajectories_resample_length
\* points, workspace_dimensions channels and imitation_window_size + (order - 1)
\* window steps for every trajectory, whatever its raw length.
C6_ReturnsTensorForEveryDemo ==
  /\ pc # "raised"
  /\ pc = "get_limits_derivatives" =>
       /\ Len(demonstrations_train) = NTrajectories
       /\ \A j \in 1..NTrajectories :
            /\ Len(demonstrations_train[j]) = NSamples
            /\ \A n \in 1..NSamples :
                 /\ Len(demonstrations_train[j][n]) = params.dim_workspace
                 /\ \A d \in 1..params.dim_workspace :
                      Len(demonstrations_train[j][n][d]) = WindowSteps(params)

KnotAdvance(i) == NextPhase(<<gen.curve_phases[i]>>, gen)

\* C10 as amended (exact arithmetic): one window advance takes a phase sample at
\* knot phase[i] to knot phase[min(i+1, L-1)]; the first resampled point holds
\* normalized sample min(k, L-1) at window step k; the last resampled point holds
\* the final normalized sample at every window step when there are at least two
\* resampled points (so that it starts at max_phase); the un-clamped next phase
\* stays in [0, max_phase], the clamp changes nothing and the diagnostic error
\* is zero.
C10_KnotToKnot ==
  InWindowLoop =>
    /\ \A i \in 1..RawLength :
         /\ KnotAdvance(i) = <<gen.curve_phases[Min(i + 1, RawLength)]>>
         /\ ClipPhase(KnotAdvance(i), gen) = KnotAdvance(i)
    /\ \A k \in 1..Len(gen.window) : \A d \in 1..params.dim_workspace :
         /\ gen.window[k][d][1] = gen.demo_norm[Min(k, RawLength)][d]
         /\ NSamples >= 2 => gen.window[k][d][NSamples] = gen.demo_norm[RawLength][d]
    /\ \A n \in 1..Len(gen.next_phase) :
         /\ WithinPhaseRange(gen.next_phase[n])
         /\ gen.u[n] = gen.next_phase[n]
    /\ \A e \in 1..Len(gen.error_acc) : gen.error_acc[e] = Zero

\* C10 as stated: ... the last resampled point holds the final normalized sample
\* at every window step, for every trajectories_resample_length.
C10_LastPointAtEnd ==
  InWindowLoop =>
    /\ \A i \in 1..RawLength :
         KnotAdvance(i) = <<gen.curve_phases[Min(i + 1, RawLength)]>>
    /\ \A k \in 1..Len(gen.window) : \A d \in 1..params.dim_workspace :
         /\ gen.window[k][d][1] = gen.demo_norm[Min(k, RawLength)][d]
         /\ gen.window[k][d][NSamples] = gen.demo_norm[RawLength][d]
    /\ \A n \in 1..Len(gen.next_phase) : WithinPhaseRange(gen.next_phase[n])
    /\ \A e \in 1..Len(gen.error_acc) : gen.error_acc[e] = Zero

\* three window steps over a two-sample trajectory with three resampled points:
\* the first point has reached the final sample at the third step
C10_Witness ==
  /\ InWindowLoop
  /\ gen.k = 3
  /\ RawLength = 2
  /\ NSamples = 3
  /\ gen.demo_norm[1] # gen.demo_norm[2]
  /\ gen.window[1][1][1] = gen.demo_norm[1][1]
  /\ gen.window[3][2][1] = gen.demo_norm[2][2]
  /\ gen.error_acc = <<Zero, Zero, Zero>>

====
